---- MODULE Spec2Model ----
(***************************************************************************)
(* Model of brewery-async.py: the paged counter get_brewery_count, the     *)
(* asyncio wrapper get_brewery_counts_for_states (run_in_executor +        *)
(* gather) and the __main__ script that runs the wrapper and then the      *)
(* serial loop over the same list of states.                               *)
(*                                                                         *)
(* The HTTP collaborator (requests.get + Response.json) is the environment.*)
(* What it answers to each page request of each invocation is fixed in the *)
(* initial state (stub) and never changes; pages past the end of the stub  *)
(* are answered with status 200 and an empty list.                         *)
(***************************************************************************)
EXTENDS Integers, Sequences, FiniteSets, TLC

\* ------------------------------------------------------------------ bounds

\* Pages a stubbed server describes explicitly in the single-call runs.
MaxPages == 3

\* Pages a stubbed server describes explicitly in the runs of the script.
MainPages == 1

\* Longest list of states handed to the script.
MaxStates == 2

\* Longest row handed to the helpers of mp_helpers.py.
MaxRow == 3

\* ------------------------------------------------------- program constants

per_page == 200

HTTP_OK == 200

StateIds == {"maryland", "virginia"}

\* ------------------------------------------------- the HTTP collaborator

\* req.get raised (connection error, timeout): there is no response object.
Exc == [kind |-> "exc", status |-> 0, json |-> "none", n |-> 0]

\* A response with status s whose body is: "bad" (resp.json() raises),
\* "list" / "object" of n items, "null", or the "number" n.
Http(s, j, m) == [kind |-> "http", status |-> s, json |-> j, n |-> m]

EmptyPage == Http(HTTP_OK, "list", 0)

NoResp == [kind |-> "none", status |-> 0, json |-> "none", n |-> 0]

\* Bodies of success-status responses the single-call runs draw from.
Bodies ==
    {<<"bad", 0>>, <<"list", 0>>, <<"list", 1>>, <<"list", per_page - 1>>,
     <<"list", per_page>>, <<"null", 0>>, <<"object", 2>>, <<"number", 7>>}

Responses ==
    {Exc, Http(404, "list", 1)} \cup {Http(HTTP_OK, b[1], b[2]) : b \in Bodies}

\* Responses the runs of the whole script draw from.
MainResponses ==
    {Exc, Http(404, "list", 1), Http(HTTP_OK, "bad", 0),
     Http(HTTP_OK, "list", 1), Http(HTTP_OK, "number", 7)}

\* Every failure of a server replaced by a legitimate end of data.
Legit(s) ==
    [p \in DOMAIN s |->
        IF s[p].kind = "exc" \/ s[p].status # HTTP_OK \/ s[p].json = "bad"
        THEN EmptyPage ELSE s[p]]

VARIABLES
    states,         \* the list of states the script works on
    stub,           \* stub[i][p]: the server's answer to invocation i's page p
    call,           \* call[i]: the frame of invocation i of get_brewery_count
    mainpc,         \* where the script is
    wpc,            \* where get_brewery_counts_for_states is
    task,           \* task[i]: the i-th awaitable handed to gather
    outer,          \* gather's outer future
    nfinished,      \* gather's count of finished children
    results,        \* the value of gather's outer future
    completed,      \* the order in which gather saw its children finish
    async_counts,   \* brewery_counts after the async version
    serial_counts,  \* brewery_counts of the serial version
    row_a,          \* mp_helpers: the row handed to normalize and common_items
    row_b,          \* mp_helpers: the second row handed to common_items
    out,            \* mp_helpers: what the call returned
    out_swapped,    \* mp_helpers: what common_items(row_b, row_a) returned
    hpc             \* mp_helpers: which call was made

vars == <<states, stub, call, mainpc, wpc, task, outer, nfinished, results,
          completed, async_counts, serial_counts, row_a, row_b, out,
          out_swapped, hpc>>

helperVars == <<row_a, row_b, out, out_swapped, hpc>>

\* mp_helpers is not used by brewery-async.py.
HelpersUnused ==
    /\ row_a = <<>>
    /\ row_b = <<>>
    /\ out = <<>>
    /\ out_swapped = <<>>
    /\ hpc = "unused"

wrapperVars == <<wpc, task, outer, nfinished, results, completed, async_counts>>

Frames == DOMAIN call

N == Len(states)

NoResult == [state |-> "none", brewery_count |-> -1]

\* ------------------------------------------------------ get_brewery_count

IdleFrame(s) ==
    [state |-> s, pc |-> "idle", count |-> 0, page |-> 0, resp |-> NoResp,
     data |-> NoResp, gets |-> <<>>, jsons |-> 0, log |-> <<>>, ret |-> NoResult]

\* Variant: pages numbered from 0.
UrlZeroBased(state, page) ==
    [by_state |-> state, per_page |-> per_page, page |-> page - 1]

\* The query of one page request.
Url(state, page) == [by_state |-> state, per_page |-> per_page, page |-> page]

\* What the server answers to invocation i's request u.
ServerResponse(i, u) ==
    IF u.page \in DOMAIN stub[i] THEN stub[i][u.page] ELSE EmptyPage

\* Variant: only 5xx statuses stop the loop.
BadStatusServerOnly(r) == r.status >= 500

\* resp.status_code != 200
BadStatusCode(r) == r.status # HTTP_OK

\* resp.json() raises
JsonRaises(r) == r.json = "bad"

\* Variant: a page shorter than per_page is taken for the end of data.
TruthyFullOnly(d) == d.json \in {"list", "object"} /\ d.n >= per_page

\* Python's truth value of the decoded body: "not data" is its negation.
Truthy(d) ==
    CASE d.json \in {"list", "object"} -> d.n > 0
      [] d.json = "number" -> d.n # 0
      [] OTHER -> FALSE

\* len(data) is defined
HasLen(d) == d.json \in {"list", "object"}

RECURSIVE AllCounts(_)
AllCounts(k) == IF k = 0 THEN 0 ELSE call[k].count + AllCounts(k - 1)

\* Variant: the invocations add to one shared accumulator.
NewCountShared(count, d) == AllCounts(Len(call)) + d.n

\* Variant: count = len(data).
NewCountOverwrite(count, d) == d.n

\* count += len(data)
NewCount(count, d) == count + d.n

\* dict(state=state, brewery_count=count)
Result(state, count) == [state |-> state, brewery_count |-> count]

\* Variant: the loop gives up after two pages.
WhileBounded(page) == page <= 2

\* while True:
WhileCond(page) == TRUE

Entry(i) ==
    /\ call[i].pc = "entry"
    /\ call' = [call EXCEPT ![i].pc = "loop", ![i].count = 0, ![i].page = 1,
                            ![i].log = Append(@, "entry")]
    /\ UNCHANGED <<helperVars, states, stub, mainpc, serial_counts, wrapperVars>>

\* The response to the request the loop is about to make.
NextResp(i) == ServerResponse(i, Url(call[i].state, call[i].page))

Requested(i) == Append(call[i].gets, Url(call[i].state, call[i].page))

\* Variant: a request error is logged and the same page asked for again.
ExceptRequestRetry(f) == [f EXCEPT !.log = Append(@, "request error")]

\* Variant: a request error discards the count.
ExceptRequestReset(f) ==
    [f EXCEPT !.pc = "exiting", !.count = 0, !.log = Append(@, "request error")]

\* except Exception: print(... request error ...); break
ExceptRequest(f) ==
    [f EXCEPT !.pc = "exiting", !.log = Append(@, "request error")]

RequestError(i) ==
    /\ call[i].pc = "loop"
    /\ WhileCond(call[i].page)
    /\ NextResp(i).kind = "exc"
    /\ call' = [call EXCEPT ![i] = [ExceptRequest(@) EXCEPT !.gets = Requested(i)]]
    /\ UNCHANGED <<helperVars, states, stub, mainpc, serial_counts, wrapperVars>>

\* Variant: a bad status is reported as a count of -1.
StatusStopMinusOne(f) ==
    [f EXCEPT !.pc = "exiting", !.count = -1, !.log = Append(@, "status_code")]

\* print(... status_code ... stopping); break
StatusStop(f) ==
    [f EXCEPT !.pc = "exiting", !.log = Append(@, "status_code")]

BadStatus(i) ==
    /\ call[i].pc = "loop"
    /\ WhileCond(call[i].page)
    /\ NextResp(i).kind = "http"
    /\ BadStatusCode(NextResp(i))
    /\ call' = [call EXCEPT ![i] = [StatusStop(@) EXCEPT !.gets = Requested(i),
                                                         !.resp = NextResp(i)]]
    /\ UNCHANGED <<helperVars, states, stub, mainpc, serial_counts, wrapperVars>>

\* Variant: a decode error discards the count.
ExceptJsonReset(f) ==
    [f EXCEPT !.pc = "exiting", !.count = 0, !.log = Append(@, "json decode error")]

\* except Exception: print(... json decode error ...); break
ExceptJson(f) ==
    [f EXCEPT !.pc = "exiting", !.log = Append(@, "json decode error")]

DecodeError(i) ==
    /\ call[i].pc = "loop"
    /\ WhileCond(call[i].page)
    /\ NextResp(i).kind = "http"
    /\ ~BadStatusCode(NextResp(i))
    /\ JsonRaises(NextResp(i))
    /\ call' = [call EXCEPT ![i] = [ExceptJson(@) EXCEPT !.gets = Requested(i),
                                                         !.resp = NextResp(i),
                                                         !.jsons = @ + 1]]
    /\ UNCHANGED <<helperVars, states, stub, mainpc, serial_counts, wrapperVars>>

EmptyData(i) ==
    /\ call[i].pc = "loop"
    /\ WhileCond(call[i].page)
    /\ NextResp(i).kind = "http"
    /\ ~BadStatusCode(NextResp(i))
    /\ ~JsonRaises(NextResp(i))
    /\ ~Truthy(NextResp(i))
    /\ call' = [call EXCEPT ![i].pc = "exiting", ![i].gets = Requested(i),
                            ![i].resp = NextResp(i), ![i].jsons = @ + 1,
                            ![i].data = NextResp(i)]
    /\ UNCHANGED <<helperVars, states, stub, mainpc, serial_counts, wrapperVars>>

AddPage(i) ==
    /\ call[i].pc = "loop"
    /\ WhileCond(call[i].page)
    /\ NextResp(i).kind = "http"
    /\ ~BadStatusCode(NextResp(i))
    /\ ~JsonRaises(NextResp(i))
    /\ Truthy(NextResp(i))
    /\ HasLen(NextResp(i))
    /\ call' = [call EXCEPT ![i].gets = Requested(i),
                            ![i].resp = NextResp(i), ![i].jsons = @ + 1,
                            ![i].data = NextResp(i),
                            ![i].count = NewCount(@, NextResp(i)),
                            ![i].page = @ + 1]
    /\ UNCHANGED <<helperVars, states, stub, mainpc, serial_counts, wrapperVars>>

\* len() of a number or of true: TypeError, which nothing in the function catches.
LenTypeError(i) ==
    /\ call[i].pc = "loop"
    /\ WhileCond(call[i].page)
    /\ NextResp(i).kind = "http"
    /\ ~BadStatusCode(NextResp(i))
    /\ ~JsonRaises(NextResp(i))
    /\ Truthy(NextResp(i))
    /\ ~HasLen(NextResp(i))
    /\ call' = [call EXCEPT ![i].pc = "raised", ![i].gets = Requested(i),
                            ![i].resp = NextResp(i), ![i].jsons = @ + 1,
                            ![i].data = NextResp(i)]
    /\ UNCHANGED <<helperVars, states, stub, mainpc, serial_counts, wrapperVars>>

Return(i) ==
    /\ \/ call[i].pc = "exiting"
       \/ call[i].pc = "loop" /\ ~WhileCond(call[i].page)
    /\ call' = [call EXCEPT ![i].pc = "returned",
                            ![i].log = Append(@, "exiting"),
                            ![i].ret = Result(call[i].state, call[i].count)]
    /\ UNCHANGED <<helperVars, states, stub, mainpc, serial_counts, wrapperVars>>

CallStep(i) ==
    \/ Entry(i)
    \/ RequestError(i)
    \/ BadStatus(i)
    \/ DecodeError(i)
    \/ EmptyData(i)
    \/ AddPage(i)
    \/ LenTypeError(i)
    \/ Return(i)

\* ------------------------------------------- two runs of get_brewery_count

\* get_brewery_count is called twice, one call after the other: first
\* against any stubbed server, then against the server that answers the same
\* pages with every failure replaced by an empty list.
InitCall ==
    /\ \E s \in StateIds : \E sv \in [1..MaxPages -> Responses] :
          /\ states = <<s, s>>
          /\ stub = <<sv, Legit(sv)>>
          /\ call = <<[IdleFrame(s) EXCEPT !.pc = "entry"], IdleFrame(s)>>
    /\ mainpc = "call"
    /\ wpc = "idle"
    /\ task = <<>>
    /\ outer = "none"
    /\ nfinished = 0
    /\ results = <<>>
    /\ completed = <<>>
    /\ async_counts = <<>>
    /\ serial_counts = <<>>
    /\ HelpersUnused

\* The second call starts when the first has ended.
SecondCall ==
    /\ mainpc = "call"
    /\ call[1].pc \in {"returned", "raised"}
    /\ call[2].pc = "idle"
    /\ call' = [call EXCEPT ![2].pc = "entry"]
    /\ UNCHANGED <<helperVars, states, stub, mainpc, serial_counts, wrapperVars>>

NextCall ==
    \/ SecondCall
    \/ \E i \in Frames : Entry(i)
    \/ \E i \in Frames : RequestError(i)
    \/ \E i \in Frames : BadStatus(i)
    \/ \E i \in Frames : DecodeError(i)
    \/ \E i \in Frames : EmptyData(i)
    \/ \E i \in Frames : AddPage(i)
    \/ \E i \in Frames : LenTypeError(i)
    \/ \E i \in Frames : Return(i)

SpecCall == InitCall /\ [][NextCall]_vars

\* A thread that is inside get_brewery_count keeps running.
FairCall ==
    SpecCall /\ WF_vars(SecondCall) /\ \A i \in 1..2 : WF_vars(CallStep(i))

\* ------------------------------------------ get_brewery_counts_for_states

\* The state invocation i is called with: 1..N are the wrapper's, N+1..2N
\* the serial loop's.
StateOf(sts, i) == sts[((i - 1) % Len(sts)) + 1]

\* Variant: the results in the order the children finished in.
GatherCompletionOrder(c, order) == [k \in 1..Len(order) |-> c[order[k]].ret]

\* gather's result: the children's results in the order of the awaitables.
GatherResults(c, order) == [k \in 1..Len(order) |-> c[k].ret]

\* tasks = [...]; results = await asyncio.gather(*tasks): every awaitable
\* becomes a task of the event loop; gather of nothing is already done.
WrapperStart ==
    /\ mainpc = "async"
    /\ wpc = "idle"
    /\ wpc' = "gather"
    /\ task' = [i \in 1..N |-> "pending"]
    /\ outer' = IF N = 0 THEN "result" ELSE "pending"
    /\ UNCHANGED <<helperVars, states, stub, call, mainpc, nfinished, results, completed,
                   async_counts, serial_counts>>

\* The first step of task i: run_in_executor hands get_brewery_count(state)
\* to a worker thread. The loop runs the tasks' first steps in list order.
TaskStart(i) ==
    /\ wpc = "gather"
    /\ task[i] = "pending"
    /\ \A j \in 1..(i - 1) : task[j] # "pending"
    /\ call[i].pc = "idle"
    /\ task' = [task EXCEPT ![i] = "running"]
    /\ call' = [call EXCEPT ![i].pc = "entry"]
    /\ UNCHANGED <<helperVars, states, stub, mainpc, wpc, outer, nfinished, results,
                   completed, async_counts, serial_counts>>

\* The thread of task i has finished; the loop completes the task and runs
\* gather's callback for it.
TaskDone(i) ==
    /\ wpc = "gather"
    /\ task[i] = "running"
    /\ \A j \in 1..N : task[j] # "pending"
    /\ call[i].pc \in {"returned", "raised"}
    /\ task' = [task EXCEPT ![i] = "done"]
    /\ completed' = Append(completed, i)
    /\ IF outer # "pending"
       THEN UNCHANGED <<outer, nfinished, results>>
       ELSE /\ nfinished' = nfinished + 1
            /\ outer' = IF call[i].pc = "raised" THEN "exception"
                        ELSE IF nfinished' = N THEN "result"
                        ELSE "pending"
            /\ results' = IF outer' = "result"
                          THEN GatherResults(call, completed')
                          ELSE results
    /\ UNCHANGED <<helperVars, states, stub, call, mainpc, wpc, async_counts, serial_counts>>

\* return list(results)
WrapperReturn ==
    /\ wpc = "gather"
    /\ outer = "result"
    /\ wpc' = "returned"
    /\ async_counts' = results
    /\ mainpc' = "serial"
    /\ UNCHANGED <<helperVars, states, stub, call, task, outer, nfinished, results,
                   completed, serial_counts>>

\* await gather(...) raises the first exception of a child; nothing catches
\* it in the wrapper or in the script.
WrapperRaise ==
    /\ wpc = "gather"
    /\ outer = "exception"
    /\ wpc' = "raised"
    /\ mainpc' = "crashed"
    /\ UNCHANGED <<helperVars, states, stub, call, task, outer, nfinished, results,
                   completed, async_counts, serial_counts>>

\* ------------------------------------------------------------- the script

\* Variant: the newest result goes first.
SerialPrepend(counts, r) == <<r>> \o counts

\* the list comprehension adds the next call's result
SerialAppend(counts, r) == Append(counts, r)

\* The invocation the serial loop is at.
SerialFrame == N + Len(serial_counts) + 1

SerialCall ==
    /\ mainpc = "serial"
    /\ Len(serial_counts) < N
    /\ call[SerialFrame].pc = "idle"
    /\ call' = [call EXCEPT ![SerialFrame].pc = "entry"]
    /\ UNCHANGED <<helperVars, states, stub, mainpc, serial_counts, wrapperVars>>

SerialCollect ==
    /\ mainpc = "serial"
    /\ Len(serial_counts) < N
    /\ call[SerialFrame].pc = "returned"
    /\ serial_counts' = SerialAppend(serial_counts, call[SerialFrame].ret)
    /\ UNCHANGED <<helperVars, states, stub, call, mainpc, wrapperVars>>

\* The summary is printed and async.json written.
Finish ==
    /\ mainpc = "serial"
    /\ Len(serial_counts) = N
    /\ mainpc' = "done"
    /\ UNCHANGED <<helperVars, states, stub, call, serial_counts, wrapperVars>>

StateLists == UNION {[1..n -> StateIds] : n \in 0..MaxStates}

InitMain ==
    /\ states \in StateLists
    /\ \E sv \in [StateIds -> [1..MainPages -> MainResponses]] :
          stub = [i \in 1..(2 * N) |-> sv[StateOf(states, i)]]
    /\ call = [i \in 1..(2 * N) |-> IdleFrame(StateOf(states, i))]
    /\ mainpc = "async"
    /\ wpc = "idle"
    /\ task = <<>>
    /\ outer = "none"
    /\ nfinished = 0
    /\ results = <<>>
    /\ completed = <<>>
    /\ async_counts = <<>>
    /\ serial_counts = <<>>
    /\ HelpersUnused

NextMain ==
    \/ WrapperStart
    \/ \E i \in 1..N : TaskStart(i)
    \/ \E i \in 1..N : TaskDone(i)
    \/ WrapperReturn
    \/ WrapperRaise
    \/ SerialCall
    \/ SerialCollect
    \/ Finish
    \/ \E i \in Frames : Entry(i)
    \/ \E i \in Frames : RequestError(i)
    \/ \E i \in Frames : BadStatus(i)
    \/ \E i \in Frames : DecodeError(i)
    \/ \E i \in Frames : EmptyData(i)
    \/ \E i \in Frames : AddPage(i)
    \/ \E i \in Frames : LenTypeError(i)
    \/ \E i \in Frames : Return(i)

SpecMain == InitMain /\ [][NextMain]_vars

\* ------------------------------------------------------------ mp_helpers

\* The numbers the rows are made of.
Values == {-1, 0, 2}

Rows == UNION {[1..n -> Values] : n \in 0..MaxRow}

\* set(row)
ToSet(row) == {row[i] : i \in DOMAIN row}

\* min(row), max(row)
MinOf(row) == CHOOSE x \in ToSet(row) : \A y \in ToSet(row) : x <= y

MaxOf(row) == CHOOSE x \in ToSet(row) : \A y \in ToSet(row) : x >= y

\* sorted(list(S)) of a set S of numbers
RECURSIVE Sorted(_)
Sorted(S) ==
    IF S = {} THEN <<>>
    ELSE LET m == CHOOSE x \in S : \A y \in S : x <= y
         IN  <<m>> \o Sorted(S \ {m})

\* Variant: [x for x in row_a if x in row_b].
CommonItemsInRowOrder(ra, rb) ==
    LET RECURSIVE Keep(_)
        Keep(k) == IF k = 0 THEN <<>>
                   ELSE IF ra[k] \in ToSet(rb) THEN Append(Keep(k - 1), ra[k])
                   ELSE Keep(k - 1)
    IN  Keep(Len(ra))

\* sorted(list(set(row_a) & set(row_b)))
common_items(ra, rb) == Sorted(ToSet(ra) \cap ToSet(rb))

\* The float a / b, kept as the fraction it is the value of.
Quotient(a, b) == [num |-> a, den |-> b]

\* 0.0
Zero == Quotient(0, 1)

\* Variant: divides by max_val.
ScaleByMax(x, min_val, max_val) == Quotient(x - min_val, max_val)

\* (x - min_val) / (max_val - min_val)
Scale(x, min_val, max_val) == Quotient(x - min_val, max_val - min_val)

normalize(row) ==
    LET min_val == MinOf(row)
        max_val == MaxOf(row)
    IN  IF max_val = min_val
        THEN [i \in 1..Len(row) |-> Zero]
        ELSE [i \in 1..Len(row) |-> Scale(row[i], min_val, max_val)]

Normalize ==
    /\ hpc = "ready"
    /\ row_a # <<>>
    /\ out' = normalize(row_a)
    /\ hpc' = "normalized"
    /\ UNCHANGED <<states, stub, call, mainpc, serial_counts, wrapperVars,
                   row_a, row_b, out_swapped>>

\* min() of an empty row raises ValueError.
NormalizeEmpty ==
    /\ hpc = "ready"
    /\ row_a = <<>>
    /\ hpc' = "raised"
    /\ UNCHANGED <<states, stub, call, mainpc, serial_counts, wrapperVars,
                   row_a, row_b, out, out_swapped>>

CommonItems ==
    /\ hpc = "ready"
    /\ out' = common_items(row_a, row_b)
    /\ hpc' = "common"
    /\ UNCHANGED <<states, stub, call, mainpc, serial_counts, wrapperVars,
                   row_a, row_b, out_swapped>>

\* The same call with the two rows swapped.
CommonItemsSwapped ==
    /\ hpc = "common"
    /\ out_swapped' = common_items(row_b, row_a)
    /\ hpc' = "common both"
    /\ UNCHANGED <<states, stub, call, mainpc, serial_counts, wrapperVars,
                   row_a, row_b, out>>

InitHelpers ==
    /\ row_a \in Rows
    /\ row_b \in Rows
    /\ out = <<>>
    /\ out_swapped = <<>>
    /\ hpc = "ready"
    /\ states = <<>>
    /\ stub = <<>>
    /\ call = <<>>
    /\ mainpc = "helpers"
    /\ wpc = "idle"
    /\ task = <<>>
    /\ outer = "none"
    /\ nfinished = 0
    /\ results = <<>>
    /\ completed = <<>>
    /\ async_counts = <<>>
    /\ serial_counts = <<>>

NextHelpers ==
    \/ Normalize
    \/ NormalizeEmpty
    \/ CommonItems
    \/ CommonItemsSwapped

SpecHelpers == InitHelpers /\ [][NextHelpers]_vars

\* ------------------------------------------------------------ properties

\* What a server answers for page p: past its last page, an empty list.
PageAt(sv, p) == IF p \in DOMAIN sv THEN sv[p] ELSE EmptyPage

\* A success-status page that decodes to n > 0 records.
GoodPage(r) ==
    r.kind = "http" /\ r.status = 200 /\ r.json \in {"list", "object"} /\ r.n > 0

\* A transport failure, a non-success status or an undecodable body.
Failure(r) ==
    r.kind = "exc" \/ (r.kind = "http" /\ (r.status # 200 \/ r.json = "bad"))

FullPages(sv, k) ==
    \A p \in 1..k : p \in DOMAIN sv /\ sv[p] = Http(200, "list", 200)

RECURSIVE SumLens(_, _)
SumLens(sv, n) == IF n = 0 THEN 0 ELSE sv[n].n + SumLens(sv, n - 1)

\* The first n pages are non-empty success pages and page n+1 is r.
After(sv, n, r) ==
    /\ n + 1 \in DOMAIN sv
    /\ sv[n + 1] = r
    /\ \A p \in 1..n : GoodPage(sv[p])

\* Invocation i stopped at page n+1 with the count of the first n pages,
\* having read the bodies of `reads` responses, and returns that count.
StopsAt(i, n, reads) ==
    /\ call[i].pc # "raised"
    /\ Len(call[i].gets) <= n + 1
    /\ Len(call[i].gets) = n + 1 =>
          /\ call[i].pc \in {"exiting", "returned"}
          /\ call[i].count = SumLens(stub[i], n)
          /\ call[i].jsons = reads
    /\ call[i].pc = "returned" =>
          call[i].ret = [state |-> call[i].state,
                         brewery_count |-> SumLens(stub[i], n)]

\* C1: k full pages of 200 records, then (when r > 0) one page of r < 200
\* records, then an empty list: the call returns brewery_count = 200*k + r.
C1_FullThenPartial ==
    \A i \in Frames : \A k \in 0..Len(stub[i]) :
        LET last == PageAt(stub[i], k + 1) IN
        ( /\ FullPages(stub[i], k)
          /\ last.kind = "http" /\ last.status = 200 /\ last.json = "list"
          /\ last.n < 200
          /\ last.n > 0 => PageAt(stub[i], k + 2) = EmptyPage )
        => /\ call[i].pc # "raised"
           /\ call[i].pc = "returned" =>
                 call[i].ret = [state |-> call[i].state,
                                brewery_count |-> 200 * k + last.n]

C1_Witness ==
    \E i \in Frames :
        /\ FullPages(stub[i], 1)
        /\ stub[i][2] = Http(200, "list", 199)
        /\ stub[i][3] = EmptyPage
        /\ call[i].pc = "returned"
        /\ call[i].ret.brewery_count = 399

\* C2: a transport failure on page request n+1 after n non-empty success
\* pages ends the loop at once and the call returns the sum of the lengths of
\* those n pages: 400 after 2 full pages, 0 on the first request.
C2_TransportFailure ==
    \A i \in Frames :
        /\ \A n \in 0..(Len(stub[i]) - 1) :
              After(stub[i], n, Exc) => StopsAt(i, n, n)
        /\ (stub[i][1] = Exc /\ call[i].pc = "returned")
              => call[i].ret.brewery_count = 0
        /\ (FullPages(stub[i], 2) /\ stub[i][3] = Exc /\ call[i].pc = "returned")
              => call[i].ret.brewery_count = 400

C2_Witness ==
    \E i \in Frames :
        /\ FullPages(stub[i], 2)
        /\ stub[i][3] = Exc
        /\ call[i].pc = "returned"
        /\ call[i].ret.brewery_count = 400
        /\ Len(call[i].gets) = 3

\* C3: a non-success status on page request n+1 ends the loop and the call
\* returns the count of the first n pages without reading that response's
\* body (n bodies read in all); on the first request the count is 0.
C3_BadStatus ==
    \A i \in Frames :
        /\ \A n \in 0..(Len(stub[i]) - 1) :
              (After(stub[i], n, stub[i][n + 1]) /\ stub[i][n + 1].kind = "http"
                  /\ stub[i][n + 1].status # 200)
              => StopsAt(i, n, n)
        /\ (stub[i][1].kind = "http" /\ stub[i][1].status # 200
                /\ call[i].pc = "returned")
              => call[i].ret.brewery_count = 0

C3_Witness ==
    \E i \in Frames :
        /\ GoodPage(stub[i][1])
        /\ stub[i][2].kind = "http"
        /\ stub[i][2].status = 404
        /\ call[i].pc = "returned"
        /\ call[i].ret.brewery_count = stub[i][1].n
        /\ call[i].jsons = 1

\* C4: an undecodable success-status body on page request n+1 ends the loop
\* and the call returns the count of the first n pages, unchanged.
C4_DecodeFailure ==
    \A i \in Frames : \A n \in 0..(Len(stub[i]) - 1) :
        After(stub[i], n, Http(200, "bad", 0)) => StopsAt(i, n, n + 1)

C4_Witness ==
    \E i \in Frames :
        /\ After(stub[i], 2, Http(200, "bad", 0))
        /\ stub[i][1].n # stub[i][2].n
        /\ call[i].pc = "returned"
        /\ call[i].ret.brewery_count = stub[i][1].n + stub[i][2].n

\* C5: when get_brewery_counts_for_states returns, it returns exactly N
\* results and the i-th is the result of the invocation for states[i] (its
\* state field is states[i]), whatever order the invocations finished in.
C5_InputOrder ==
    wpc = "returned" =>
        /\ Len(async_counts) = N
        /\ \A i \in 1..N :
              /\ async_counts[i] = call[i].ret
              /\ async_counts[i].state = states[i]

\* Two different states, and the second one's invocation finished first.
C5_Witness ==
    /\ wpc = "returned"
    /\ N = 2
    /\ states[1] # states[2]
    /\ completed = <<2, 1>>
    /\ async_counts[1].brewery_count # async_counts[2].brewery_count

\* C6: with the same answers per state, the wrapper and the serial loop
\* produce the same list of results under every interleaving; the serial
\* loop never fails where the wrapper returned.
C6_SerialAgrees ==
    /\ mainpc = "done" => serial_counts = async_counts
    /\ mainpc \in {"serial", "done"} =>
          /\ \A k \in 1..Len(serial_counts) : serial_counts[k] = async_counts[k]
          /\ \A i \in Frames : call[i].pc # "raised"

C6_Witness ==
    /\ mainpc = "done"
    /\ N = 2
    /\ completed = <<2, 1>>
    /\ serial_counts[1].brewery_count # serial_counts[2].brewery_count

\* C7: get_brewery_count never lets an exception cross its boundary: no
\* invocation ever ends by raising.
C7_NeverRaises == \A i \in Frames : call[i].pc # "raised"

\* C8: the wrapper has no error path: it never raises, and it returns only
\* when all N invocations have returned and each contributed one result.
C8_NoErrorPath ==
    /\ wpc # "raised"
    /\ wpc = "returned" =>
          /\ \A i \in 1..N : call[i].pc = "returned"
          /\ Len(async_counts) = N

\* The answer to the last request invocation i made.
LastAnswer(i) == PageAt(stub[i], Len(call[i].gets))

Finished(i) == call[i].pc \in {"exiting", "returned", "raised"}

\* An empty list or an error.
EmptyOrError(r) == Failure(r) \/ r = EmptyPage

\* A success-status body that is not a non-empty list or object: null, an
\* empty list or object, or a number.
NotCountable(r) ==
    r.kind = "http" /\ r.status = 200 /\ r.json # "bad" /\
    ~(r.json \in {"list", "object"} /\ r.n > 0)

C10_FailureLooksLikeEmpty ==
    LET n == Len(call[1].gets) - 1 IN
    ( /\ call[1].pc = "returned"
      /\ call[2].pc = "returned"
      /\ Failure(LastAnswer(1))
      /\ \A p \in 1..n : stub[2][p] = stub[1][p]
      /\ stub[2][n + 1] = EmptyPage )
    => /\ call[1].ret = call[2].ret
       /\ Len(call[2].gets) = n + 1

C10_Witness ==
    /\ call[1].pc = "returned"
    /\ call[2].pc = "returned"
    /\ Failure(LastAnswer(1))
    /\ Len(call[1].gets) = 3
    /\ stub[2][3] = EmptyPage
    /\ call[2].ret.brewery_count > 200
    /\ call[1].ret = call[2].ret

\* C11: within one call the requests carry pages 1, 2, 3, ... in order, with
\* no gap and no repeat, each with the state the call was given and
\* per_page = 200; the page number goes up, by one, only in the step that
\* adds a non-empty success page to the count.
C11_PageSequence ==
    /\ [](\A i \in Frames : \A k \in 1..Len(call[i].gets) :
             call[i].gets[k] = [by_state |-> states[i], per_page |-> 200,
                                page |-> k])
    /\ [][\A i \in Frames :
             (call[i].pc = "loop" /\ call'[i].page # call[i].page) =>
                 /\ call'[i].page = call[i].page + 1
                 /\ GoodPage(PageAt(stub[i], call[i].page))
                 /\ call'[i].count = call[i].count + PageAt(stub[i], call[i].page).n
                 /\ Len(call'[i].gets) = call[i].page]_vars

\* A call that asked for every page of the stub and for the one after it.
C11_Witness ==
    \E i \in Frames :
        /\ call[i].pc = "returned"
        /\ Len(call[i].gets) = Len(stub[i]) + 1
        /\ call[i].gets[Len(stub[i]) + 1].page = Len(stub[i]) + 1
        /\ call[i].page = Len(stub[i]) + 1

\* The non-empty success pages among the answers invocation i has received.
GoodAnswers(i) ==
    {k \in 1..Len(call[i].gets) : GoodPage(PageAt(stub[i], k))}

\* C12: the first answer that is a transport failure, a non-success status,
\* an undecodable body or an empty list is the answer to the call's last
\* request (no retry, no further GET); a call that has ended after n
\* non-empty success pages has issued exactly n+1 GETs, and a short
\* non-empty page does not end it.
C12_StopIsLastRequest ==
    \A i \in Frames :
        /\ \A k \in 1..Len(call[i].gets) :
              EmptyOrError(PageAt(stub[i], k)) =>
                  /\ k = Len(call[i].gets)
                  /\ call[i].pc \in {"exiting", "returned"}
        /\ Finished(i) =>
              /\ Len(call[i].gets) = Cardinality(GoodAnswers(i)) + 1
              /\ GoodAnswers(i) = 1..(Len(call[i].gets) - 1)

\* A call that went on after a page of one record and stopped at a failure.
C12_Witness ==
    \E i \in Frames :
        /\ call[i].pc = "returned"
        /\ stub[i][1] = Http(200, "list", 1)
        /\ GoodPage(stub[i][2])
        /\ Failure(stub[i][3])
        /\ Len(call[i].gets) = 3

\* The count of a server's pages from page p up to its first page that is
\* not a non-empty success page.
RECURSIVE CountFrom(_, _)
CountFrom(sv, p) ==
    IF p \in DOMAIN sv /\ GoodPage(sv[p]) THEN sv[p].n + CountFrom(sv, p + 1) ELSE 0

\* C13: the invocations share no mutable state: a step of one invocation
\* changes no other invocation's frame, an invocation that has not ended can
\* always take its next step whatever the others did, and the count returned
\* for a state is the one its own answers give, under every interleaving.
C13_NoSharedState ==
    /\ [](\A i \in Frames :
             /\ call[i].pc = "returned" =>
                   call[i].ret = [state |-> StateOf(states, i),
                                  brewery_count |-> CountFrom(stub[i], 1)]
             /\ call[i].pc \in {"entry", "loop", "exiting"} => ENABLED CallStep(i))
    /\ [][\A i \in Frames : \A j \in Frames :
             (i # j /\ call'[i] # call[i]) => call'[j] = call[j]]_vars

\* The first state's pagination ended on a failure and its invocation
\* finished first; the second state's invocation counted its page.
C13_Witness ==
    /\ N = 2
    /\ call[1].pc = "returned"
    /\ Failure(stub[1][1])
    /\ call[1].ret.brewery_count = 0
    /\ call[2].pc = "returned"
    /\ call[2].log[2] = "exiting"
    /\ call[2].ret.brewery_count = 1
    /\ completed = <<1, 2>>

\* C14: once the loop is entered, count is >= 0, never decreases, and is the
\* sum of the lengths of the page - 1 non-empty success pages received (at
\* most 200 * (page - 1) when no page is longer than per_page); the returned
\* brewery_count is count as it is when the loop exits.
C14_CountInvariant ==
    /\ [](\A i \in Frames :
             call[i].pc \in {"loop", "exiting", "returned", "raised"} =>
                /\ call[i].count >= 0
                /\ call[i].page >= 1
                /\ \A p \in 1..(call[i].page - 1) : GoodPage(stub[i][p])
                /\ call[i].count = SumLens(stub[i], call[i].page - 1)
                /\ (\A p \in 1..(call[i].page - 1) : stub[i][p].n <= 200)
                      => call[i].count <= 200 * (call[i].page - 1)
                /\ call[i].pc = "returned" =>
                      call[i].ret.brewery_count = call[i].count)
    /\ [][\A i \in Frames : call'[i].count >= call[i].count]_vars

\* A full page and then a shorter one have been counted.
C14_Witness ==
    \E i \in Frames :
        /\ call[i].pc = "returned"
        /\ call[i].page = 3
        /\ stub[i][1].n = 200
        /\ stub[i][2].n = 1
        /\ call[i].ret.brewery_count = 201

C16_CommonItems ==
    /\ hpc \in {"common", "common both"} =>
          /\ \A i \in 1..(Len(out) - 1) : out[i] < out[i + 1]
          /\ \A v \in Values :
                (\E i \in 1..Len(out) : out[i] = v) <=>
                   ((\E i \in 1..Len(row_a) : row_a[i] = v) /\
                    (\E j \in 1..Len(row_b) : row_b[j] = v))
    /\ hpc = "common both" => out_swapped = out

\* Two rows with repeats and in different orders that share two values.
C16_Witness ==
    /\ hpc = "common both"
    /\ row_a = <<2, -1, 2>>
    /\ row_b = <<0, 2, -1>>
    /\ out = <<-1, 2>>
    /\ out_swapped = out

====
